---- MODULE Spec2Model ----
(***************************************************************************)
(* Request pipeline of the Gemini Flash API gateway (src/index.js): the    *)
(* multer upload middleware, prompt validation, the four POST handlers and *)
(* the single call each makes to the generation collaborator.              *)
(*                                                                         *)
(* One behaviour follows one HTTP request from arrival to its response.    *)
(* JavaScript strings are TLA+ strings; a JavaScript value is a record     *)
(* [kind, str] where kind is the value's dynamic type.                     *)
(***************************************************************************)
EXTENDS Integers, Sequences, FiniteSets, TLC

VARIABLES route, body, part, pc, reqFile, handlerRan, calls, generation, responses

vars == <<route, body, part, pc, reqFile, handlerRan, calls, generation, responses>>

inputs == <<route, body, part>>

(***************************************************************************)
(* Bounds of the input space.                                              *)
(***************************************************************************)
MaxPromptLen == 2

(***************************************************************************)
(* Program constants.                                                      *)
(***************************************************************************)
MAX_FILE_SIZE_MB == 5

MAX_FILE_SIZE_BYTES == MAX_FILE_SIZE_MB * 1024 * 1024

IMAGE_MIME_TYPES == <<"image/png", "image/jpeg", "image/jpg", "image/webp">>

DOCUMENT_MIME_TYPES ==
  <<"application/pdf",
    "application/msword",
    "application/vnd.openxmlformats-officedocument.wordprocessingml.document",
    "text/plain">>

AUDIO_MIME_TYPES ==
  <<"audio/mpeg", "audio/mp3", "audio/wav", "audio/x-wav", "audio/webm", "audio/ogg">>

GenerateTextRoute == "/generate-text"

GenerateFromImageRoute == "/generate-from-image"

GenerateFromDocumentRoute == "/generate-from-document"

GenerateFromAudioRoute == "/generate-from-audio"

Routes ==
  {GenerateTextRoute, GenerateFromImageRoute, GenerateFromDocumentRoute, GenerateFromAudioRoute}

(***************************************************************************)
(* JavaScript values.                                                      *)
(***************************************************************************)
JSUndefined == [kind |-> "undefined", str |-> ""]

JSNull == [kind |-> "null", str |-> ""]

JSNumber == [kind |-> "number", str |-> ""]

JSBoolean == [kind |-> "boolean", str |-> ""]

JSObject == [kind |-> "object", str |-> ""]

JSString(s) == [kind |-> "string", str |-> s]

\* typeof v
TypeOf(v) == IF v.kind = "null" THEN "object" ELSE v.kind

\* v is null or undefined: the case in which `v ?? d` yields d and `v?.m()` yields undefined
IsNullish(v) == v.kind \in {"undefined", "null"}

\* the i-th character of s
CharAt(s, i) == SubSeq(s, i, i)

UpperCaseLetters == "ABCDEFGHIJKLMNOPQRSTUVWXYZ"

LowerCaseLetters == "abcdefghijklmnopqrstuvwxyz"

LowerChar(c) ==
  IF \E i \in 1..Len(UpperCaseLetters) : CharAt(UpperCaseLetters, i) = c
  THEN LET i == CHOOSE j \in 1..Len(UpperCaseLetters) : CharAt(UpperCaseLetters, j) = c
       IN  CharAt(LowerCaseLetters, i)
  ELSE c

RECURSIVE ToLowerCase(_)
\* String.prototype.toLowerCase
ToLowerCase(s) ==
  IF Len(s) = 0 THEN "" ELSE LowerChar(CharAt(s, 1)) \o ToLowerCase(Tail(s))

WhiteSpace == {" ", "\t", "\n", "\r"}

RECURSIVE TrimStart(_)
TrimStart(s) ==
  IF Len(s) > 0 /\ CharAt(s, 1) \in WhiteSpace THEN TrimStart(Tail(s)) ELSE s

RECURSIVE TrimEnd(_)
TrimEnd(s) ==
  IF Len(s) > 0 /\ CharAt(s, Len(s)) \in WhiteSpace
  THEN TrimEnd(SubSeq(s, 1, Len(s) - 1))
  ELSE s

\* String.prototype.trim
Trim(s) == TrimEnd(TrimStart(s))

\* Array.prototype.includes on an array of strings
Includes(arr, s) == \E i \in 1..Len(arr) : arr[i] = s

RECURSIVE Join(_, _)
\* Array.prototype.join
Join(arr, sep) ==
  IF Len(arr) = 0 THEN ""
  ELSE IF Len(arr) = 1 THEN arr[1]
  ELSE arr[1] \o sep \o Join(Tail(arr), sep)

(***************************************************************************)
(* Prompt validation.                                                      *)
(***************************************************************************)
\* isPromptValid without the trim: a blank string passes
isPromptValid_NoTrim(prompt) == TypeOf(prompt) = "string" /\ Len(prompt.str) > 0

isPromptValid(prompt) == TypeOf(prompt) = "string" /\ Len(Trim(prompt.str)) > 0

\* const { prompt } = req.body ?? {}
PromptOf(b) == IF b.present THEN b.prompt ELSE JSUndefined

(***************************************************************************)
(* The upload gate: multer(...).single(fieldName) with the file filter and *)
(* the size limit of createUploadMiddleware.                               *)
(***************************************************************************)
NoError == [kind |-> "none", code |-> "", message |-> ""]

Error(message) == [kind |-> "Error", code |-> "", message |-> message]

MulterError(code) ==
  [kind |-> "MulterError", code |-> code,
   message |-> IF code = "LIMIT_FILE_SIZE" THEN "File too large"
               ELSE IF code = "LIMIT_UNEXPECTED_FILE" THEN "Unexpected field"
               ELSE code]

NoFile == [present |-> FALSE, mimetype |-> JSUndefined, size |-> 0]

NoPart == [present |-> FALSE, fieldname |-> "", mimetype |-> JSUndefined, size |-> 0]

\* fileFilter comparing the declared type as sent, without toLowerCase
fileFilter_CaseSensitive(allowedMimeTypes, file) ==
  LET mimetype == IF IsNullish(file.mimetype) THEN "" ELSE file.mimetype.str
  IN  IF ~Includes(allowedMimeTypes, mimetype)
      THEN Error("Invalid file type. Allowed types: " \o Join(allowedMimeTypes, ", "))
      ELSE NoError

\* the fileFilter callback: the error handed to cb, NoError for cb(null, true)
fileFilter(allowedMimeTypes, file) ==
  LET mimetype == IF IsNullish(file.mimetype) THEN "" ELSE ToLowerCase(file.mimetype.str)
  IN  IF ~Includes(allowedMimeTypes, mimetype)
      THEN Error("Invalid file type. Allowed types: " \o Join(allowedMimeTypes, ", "))
      ELSE NoError

\* limits: { fileSize }. The multipart parser signals 'limit' once the file
\* exceeds limits.fileSize. A file of exactly limits.fileSize bytes is within
\* the limit for the parser of the older multer releases (it compares with >)
\* and signals 'limit' for the parser of the newer ones (it truncates on
\* reaching the limit); the repository pins no release, so limitInclusive
\* ranges over both builds.
ExceedsFileSize(size, limitInclusive) ==
  IF limitInclusive THEN size > MAX_FILE_SIZE_BYTES ELSE size >= MAX_FILE_SIZE_BYTES

\* uploader configured without limits.fileSize
uploader_NoSizeLimit(fieldName, allowedMimeTypes, p, limitInclusive) ==
  IF ~p.present THEN [err |-> NoError, file |-> NoFile]
  ELSE IF p.fieldname # fieldName
    THEN [err |-> MulterError("LIMIT_UNEXPECTED_FILE"), file |-> NoFile]
  ELSE IF fileFilter(allowedMimeTypes, p) # NoError
    THEN [err |-> fileFilter(allowedMimeTypes, p), file |-> NoFile]
  ELSE [err |-> NoError,
        file |-> [present |-> TRUE, mimetype |-> p.mimetype, size |-> p.size]]

\* uploader(req, res, cb): the error handed to cb and the resulting req.file.
\* The field is checked when the part's header arrives, then the file filter
\* runs, and only an admitted file is streamed into memory under the limit.
uploader(fieldName, allowedMimeTypes, p, limitInclusive) ==
  IF ~p.present THEN [err |-> NoError, file |-> NoFile]
  ELSE IF p.fieldname # fieldName
    THEN [err |-> MulterError("LIMIT_UNEXPECTED_FILE"), file |-> NoFile]
  ELSE IF fileFilter(allowedMimeTypes, p) # NoError
    THEN [err |-> fileFilter(allowedMimeTypes, p), file |-> NoFile]
  ELSE IF ExceedsFileSize(p.size, limitInclusive)
    THEN [err |-> MulterError("LIMIT_FILE_SIZE"), file |-> NoFile]
  ELSE [err |-> NoError,
        file |-> [present |-> TRUE, mimetype |-> p.mimetype, size |-> p.size]]

\* res.status(s).json({ message: m })
MessageResponse(s, m) == [status |-> s, key |-> "message", value |-> m]

\* res.status(s).json({ result: t })
ResultResponse(s, t) == [status |-> s, key |-> "result", value |-> t]

\* the upload error's own message, without the LIMIT_FILE_SIZE case
UploadErrorMessage_Raw(err) == err.message

\* the message the middleware answers an upload error with
UploadErrorMessage(err) ==
  IF err.kind = "MulterError" /\ err.code = "LIMIT_FILE_SIZE"
  THEN "File size exceeds " \o ToString(MAX_FILE_SIZE_MB) \o "MB limit"
  ELSE err.message

\* the middleware without the return in front of res.status(400): next() runs too
createUploadMiddleware_RespondAndNext(fieldName, allowedMimeTypes) ==
  /\ pc = "upload"
  /\ \E limitInclusive \in BOOLEAN :
       LET r == uploader(fieldName, allowedMimeTypes, part, limitInclusive)
       IN  /\ responses' = IF r.err # NoError
                           THEN Append(responses, MessageResponse(400, UploadErrorMessage(r.err)))
                           ELSE responses
           /\ reqFile' = r.file
           /\ pc' = "handler"
  /\ UNCHANGED <<inputs, handlerRan, calls, generation>>

\* the middleware returned by createUploadMiddleware(fieldName, allowedMimeTypes)
createUploadMiddleware(fieldName, allowedMimeTypes) ==
  /\ pc = "upload"
  /\ \E limitInclusive \in BOOLEAN :
       LET r == uploader(fieldName, allowedMimeTypes, part, limitInclusive)
       IN  IF r.err # NoError
           THEN /\ responses' = Append(responses, MessageResponse(400, UploadErrorMessage(r.err)))
                /\ pc' = "done"
                /\ UNCHANGED reqFile
           ELSE /\ reqFile' = r.file
                /\ pc' = "handler"
                /\ UNCHANGED responses
  /\ UNCHANGED <<inputs, handlerRan, calls, generation>>

uploadImage ==
  /\ route = GenerateFromImageRoute
  /\ createUploadMiddleware("image", IMAGE_MIME_TYPES)

uploadDocument ==
  /\ route = GenerateFromDocumentRoute
  /\ createUploadMiddleware("document", DOCUMENT_MIME_TYPES)

uploadAudio ==
  /\ route = GenerateFromAudioRoute
  /\ createUploadMiddleware("audio", AUDIO_MIME_TYPES)

(***************************************************************************)
(* The handlers, up to the await of ai.models.generateContent.             *)
(***************************************************************************)
\* contents: prompt
TextContents(text) == [text |-> text, inline |-> FALSE, mimeType |-> JSUndefined]

\* contents: [{ type: 'text', text }, { inlineData: { data, mimeType } }]
FileContents(text, file) == [text |-> text, inline |-> TRUE, mimeType |-> file.mimetype]

\* the promise of ai.models.generateContent
NoGeneration == [state |-> "none", value |-> ""]

Pending == [state |-> "pending", value |-> ""]

\* return res.status(...).json(...)
Respond(r) ==
  /\ responses' = Append(responses, r)
  /\ pc' = "done"
  /\ UNCHANGED <<calls, generation>>

\* await ai.models.generateContent({ model, contents })
Invoke(contents) ==
  /\ calls' = Append(calls, contents)
  /\ generation' = Pending
  /\ pc' = "awaiting"
  /\ UNCHANGED responses

\* the text handler without the prompt check
GenerateText_NoPromptCheck ==
  /\ pc = "handler"
  /\ route = GenerateTextRoute
  /\ handlerRan' = TRUE
  /\ Invoke(TextContents(PromptOf(body).str))
  /\ UNCHANGED <<inputs, reqFile>>

GenerateText ==
  /\ pc = "handler"
  /\ route = GenerateTextRoute
  /\ handlerRan' = TRUE
  /\ LET prompt == PromptOf(body)
     IN  IF ~isPromptValid(prompt)
         THEN Respond(MessageResponse(400, "prompt is required"))
         ELSE Invoke(TextContents(prompt.str))
  /\ UNCHANGED <<inputs, reqFile>>

\* the image handler checking req.file before the prompt
GenerateFromImage_FileCheckFirst ==
  /\ pc = "handler"
  /\ route = GenerateFromImageRoute
  /\ handlerRan' = TRUE
  /\ LET prompt == PromptOf(body)
     IN  IF ~reqFile.present
         THEN Respond(MessageResponse(400, "image file is required"))
         ELSE IF ~isPromptValid(prompt)
         THEN Respond(MessageResponse(400, "prompt is required"))
         ELSE Invoke(FileContents(prompt.str, reqFile))
  /\ UNCHANGED <<inputs, reqFile>>

GenerateFromImage ==
  /\ pc = "handler"
  /\ route = GenerateFromImageRoute
  /\ handlerRan' = TRUE
  /\ LET prompt == PromptOf(body)
     IN  IF ~isPromptValid(prompt)
         THEN Respond(MessageResponse(400, "prompt is required"))
         ELSE IF ~reqFile.present
         THEN Respond(MessageResponse(400, "image file is required"))
         ELSE Invoke(FileContents(prompt.str, reqFile))
  /\ UNCHANGED <<inputs, reqFile>>

GenerateFromDocument ==
  /\ pc = "handler"
  /\ route = GenerateFromDocumentRoute
  /\ handlerRan' = TRUE
  /\ LET prompt == PromptOf(body)
     IN  IF ~isPromptValid(prompt)
         THEN Respond(MessageResponse(400, "prompt is required"))
         ELSE IF ~reqFile.present
         THEN Respond(MessageResponse(400, "document file is required"))
         ELSE Invoke(FileContents(IF IsNullish(prompt)
                                  THEN "Please summarize the content of the document."
                                  ELSE prompt.str,
                                  reqFile))
  /\ UNCHANGED <<inputs, reqFile>>

GenerateFromAudio ==
  /\ pc = "handler"
  /\ route = GenerateFromAudioRoute
  /\ handlerRan' = TRUE
  /\ LET prompt == PromptOf(body)
     IN  IF ~isPromptValid(prompt)
         THEN Respond(MessageResponse(400, "prompt is required"))
         ELSE IF ~reqFile.present
         THEN Respond(MessageResponse(400, "audio file is required"))
         ELSE Invoke(FileContents(IF IsNullish(prompt)
                                  THEN "Please transcribe the audio content."
                                  ELSE prompt.str,
                                  reqFile))
  /\ UNCHANGED <<inputs, reqFile>>

(***************************************************************************)
(* The collaborator settles the call, and the handler resumes.             *)
(***************************************************************************)
ResultTexts == {"hi there", ""}

ErrorMessages == {"quota exceeded", "fetch failed"}

\* the collaborator returns a response whose text is `text`
GenerateContentFulfills(text) ==
  /\ pc = "awaiting"
  /\ generation = Pending
  /\ generation' = [state |-> "fulfilled", value |-> text]
  /\ UNCHANGED <<inputs, pc, reqFile, handlerRan, calls, responses>>

\* the collaborator raises an error whose message is `message`
GenerateContentRejects(message) ==
  /\ pc = "awaiting"
  /\ generation = Pending
  /\ generation' = [state |-> "rejected", value |-> message]
  /\ UNCHANGED <<inputs, pc, reqFile, handlerRan, calls, responses>>

\* the catch block answering with a fixed message instead of error.message
HandlerResumes_FixedMessage ==
  /\ pc = "awaiting"
  /\ generation.state \in {"fulfilled", "rejected"}
  /\ responses' = Append(responses,
                         IF generation.state = "fulfilled"
                         THEN ResultResponse(200, generation.value)
                         ELSE MessageResponse(500, "Internal Server Error"))
  /\ pc' = "done"
  /\ UNCHANGED <<inputs, reqFile, handlerRan, calls, generation>>

\* after the await: res.status(200).json({ result: response.text }), or
\* catch (error) { res.status(500).json({ message: error.message }) }
HandlerResumes ==
  /\ pc = "awaiting"
  /\ generation.state \in {"fulfilled", "rejected"}
  /\ responses' = Append(responses,
                         IF generation.state = "fulfilled"
                         THEN ResultResponse(200, generation.value)
                         ELSE MessageResponse(500, generation.value))
  /\ pc' = "done"
  /\ UNCHANGED <<inputs, reqFile, handlerRan, calls, generation>>

(***************************************************************************)
(* Requests.                                                               *)
(***************************************************************************)
PromptChars == {"a", " ", "\t"}

RECURSIVE StringsUpTo(_)
StringsUpTo(n) ==
  IF n = 0 THEN {""}
  ELSE LET S == StringsUpTo(n - 1) IN S \cup {s \o c : s \in S, c \in PromptChars}

PromptValues ==
  {JSUndefined, JSNull, JSNumber, JSBoolean, JSObject}
    \cup {JSString(s) : s \in StringsUpTo(MaxPromptLen)}

Bodies ==
  {[present |-> FALSE, prompt |-> JSUndefined]}
    \cup {[present |-> TRUE, prompt |-> v] : v \in PromptValues}

MimeInputs ==
  {JSUndefined, JSString(""), JSString("image/png"), JSString("IMAGE/PNG"),
   JSString("image/gif"), JSString("application/pdf"), JSString("Text/Plain"),
   JSString("audio/mpeg"), JSString("Audio/X-Wav"), JSString("video/mp4")}

FieldNames == {"image", "document", "audio"}

Sizes == {1024, MAX_FILE_SIZE_BYTES - 1, MAX_FILE_SIZE_BYTES, MAX_FILE_SIZE_BYTES + 1}

Parts ==
  {NoPart}
    \cup {[present |-> TRUE, fieldname |-> f, mimetype |-> m, size |-> n] :
            f \in FieldNames, m \in MimeInputs, n \in Sizes}

\* the server is listening and no request has arrived
Init ==
  /\ route = GenerateTextRoute
  /\ body = [present |-> FALSE, prompt |-> JSUndefined]
  /\ part = NoPart
  /\ pc = "idle"
  /\ reqFile = NoFile
  /\ handlerRan = FALSE
  /\ calls = <<>>
  /\ generation = NoGeneration
  /\ responses = <<>>

\* a POST request arrives, with a fresh req and res; the text route has no
\* upload middleware in front of its handler
Request ==
  /\ pc = "idle"
  /\ route' \in Routes
  /\ body' \in Bodies
  /\ part' \in IF route' = GenerateTextRoute THEN {NoPart} ELSE Parts
  /\ pc' = IF route' = GenerateTextRoute THEN "handler" ELSE "upload"
  /\ reqFile' = NoFile
  /\ handlerRan' = FALSE
  /\ calls' = <<>>
  /\ generation' = NoGeneration
  /\ responses' = <<>>

\* the steps that carry a request to its response
Serve ==
  \/ uploadImage
  \/ uploadDocument
  \/ uploadAudio
  \/ GenerateText
  \/ GenerateFromImage
  \/ GenerateFromDocument
  \/ GenerateFromAudio
  \/ \E text \in ResultTexts : GenerateContentFulfills(text)
  \/ \E message \in ErrorMessages : GenerateContentRejects(message)
  \/ HandlerResumes

Next == Request \/ Serve

Spec == Init /\ [][Next]_vars

TypeOK ==
  /\ route \in Routes
  /\ body \in Bodies
  /\ part \in Parts
  /\ pc \in {"idle", "upload", "handler", "awaiting", "done"}
  /\ handlerRan \in BOOLEAN
  /\ Len(calls) \in 0..2
  /\ generation.state \in {"none", "pending", "fulfilled", "rejected"}
  /\ Len(responses) \in 0..2

(***************************************************************************)
(* Route configuration, as wired at the app.post calls.                    *)
(***************************************************************************)
\* the field name given to createUploadMiddleware for the route
FieldOf(r) ==
  IF r = GenerateFromImageRoute THEN "image"
  ELSE IF r = GenerateFromDocumentRoute THEN "document"
  ELSE IF r = GenerateFromAudioRoute THEN "audio"
  ELSE ""

\* the allow-list given to createUploadMiddleware for the route
AllowedOf(r) ==
  IF r = GenerateFromImageRoute THEN IMAGE_MIME_TYPES
  ELSE IF r = GenerateFromDocumentRoute THEN DOCUMENT_MIME_TYPES
  ELSE IF r = GenerateFromAudioRoute THEN AUDIO_MIME_TYPES
  ELSE <<>>

(***************************************************************************)
(* Properties.                                                             *)
(***************************************************************************)
requestPrompt == PromptOf(body)

\* the request carries an attachment under the field its route reads
AttachmentOffered ==
  /\ route # GenerateTextRoute
  /\ part.present
  /\ part.fieldname = FieldOf(route)

\* the upload middleware has finished
Uploaded == pc \in {"handler", "awaiting", "done"}

SizeMessage == "File size exceeds 5MB limit"

FileRequiredMessages ==
  {"image file is required", "document file is required", "audio file is required"}

\* C1: on the document and audio routes a request with a valid attachment
\* and no prompt field is not answered with 400: the collaborator is invoked
\* with the route's default text and the request ends in 200 or 500.
C1_DefaultPromptUsed ==
  (/\ route \in {GenerateFromDocumentRoute, GenerateFromAudioRoute}
   /\ reqFile.present
   /\ requestPrompt = JSUndefined
   /\ pc = "done")
  => /\ Len(calls) = 1
     /\ calls[1].text = IF route = GenerateFromDocumentRoute
                        THEN "Please summarize the content of the document."
                        ELSE "Please transcribe the audio content."
     /\ Len(responses) = 1
     /\ responses[1].status \in {200, 500}

\* how far the request has come: each step of Serve moves it on
Stage ==
  IF pc = "idle" THEN 0
  ELSE IF pc = "upload" THEN 1
  ELSE IF pc = "handler" THEN 2
  ELSE IF pc = "awaiting" THEN (IF generation = Pending THEN 3 ELSE 4)
  ELSE 5

C3_CollaboratorAtMostOnce ==
  /\ Len(calls) <= 1
  /\ pc \in {"awaiting", "done"} =>
       (Len(calls) = 1 <=> /\ handlerRan
                           /\ isPromptValid(requestPrompt)
                           /\ (route = GenerateTextRoute \/ reqFile.present))
  /\ \A i \in 1..Len(responses) :
       /\ responses[i].status = 400 => Len(calls) = 0
       /\ responses[i].status = 500 => Len(calls) = 1

C3_Witness ==
  /\ pc = "done"
  /\ Len(calls) = 1
  /\ generation.state = "rejected"
  /\ responses = <<MessageResponse(500, generation.value)>>

\* the gate turns the offered attachment down for its type or its size
GateRejects ==
  /\ AttachmentOffered
  /\ \/ fileFilter(AllowedOf(route), part) # NoError
     \/ part.size > MAX_FILE_SIZE_BYTES

\* C4: when the upload gate rejects the attachment, the middleware answers
\* 400 and the handler body never runs: no prompt validation, no
\* attachment-presence check and no collaborator call, whatever the prompt.
C4_GateShortCircuits ==
  (GateRejects /\ Uploaded)
  => /\ pc = "done"
     /\ ~handlerRan
     /\ Len(responses) = 1
     /\ responses[1].status = 400
     /\ responses[1].key = "message"
     /\ responses[1].value # "prompt is required"
     /\ responses[1].value \notin FileRequiredMessages
     /\ calls = <<>>
     /\ generation = NoGeneration

C4_Witness ==
  /\ GateRejects
  /\ pc = "done"
  /\ ~isPromptValid(requestPrompt)
  /\ responses = <<MessageResponse(400, SizeMessage)>>

\* a string with at least one character that is not white space
HasVisibleChar(s) == \E i \in 1..Len(s) : CharAt(s, i) \notin {" ", "\t", "\n", "\r"}

\* an acceptable prompt: a string that is not blank
PromptAcceptable(v) == v.kind = "string" /\ HasVisibleChar(v.str)

\* C5: on the image route a missing or invalid prompt is answered with
\* 400 'prompt is required' even when a valid image is attached, and also
\* when the image is missing too: the prompt is checked first.
C5_ImagePromptFirst ==
  (/\ route = GenerateFromImageRoute
   /\ handlerRan
   /\ ~PromptAcceptable(requestPrompt))
  => /\ pc = "done"
     /\ responses = <<MessageResponse(400, "prompt is required")>>
     /\ calls = <<>>

C5_Witness ==
  /\ route = GenerateFromImageRoute
  /\ pc = "done"
  /\ reqFile.present
  /\ requestPrompt = JSUndefined
  /\ responses = <<MessageResponse(400, "prompt is required")>>

\* C6: on the document and audio routes a request without an attachment is
\* always answered with 400 '<category> file is required', whether the
\* prompt is present, absent or invalid.
C6_MissingAttachmentMessage ==
  (/\ route \in {GenerateFromDocumentRoute, GenerateFromAudioRoute}
   /\ ~part.present
   /\ pc = "done")
  => responses = <<MessageResponse(400, FieldOf(route) \o " file is required")>>

\* C7: after a collaborator call, a failure with message m is answered with
\* 500 {message: m} and a success with text t with 200 {result: t}, both
\* unmodified, and with no other status.
C7_CollaboratorOutcomePassedThrough ==
  (Len(calls) > 0 /\ pc = "done")
  => /\ generation.state \in {"fulfilled", "rejected"}
     /\ generation.state = "fulfilled" =>
          responses = <<[status |-> 200, key |-> "result", value |-> generation.value]>>
     /\ generation.state = "rejected" =>
          responses = <<[status |-> 500, key |-> "message", value |-> generation.value]>>

C7_Witness ==
  /\ pc = "done"
  /\ route = GenerateFromDocumentRoute
  /\ generation = [state |-> "rejected", value |-> "quota exceeded"]
  /\ responses = <<[status |-> 500, key |-> "message", value |-> "quota exceeded"]>>

\* the request was turned down for the attachment's size
RejectedForSize ==
  \E i \in 1..Len(responses) : responses[i] = MessageResponse(400, SizeMessage)

\* C8 as stated: an attachment over 5 MiB is rejected with 400 'File size
\* exceeds 5MB limit' whatever its declared type, and one of 5 MiB or less
\* is not rejected for size.
C8_SizeRejectedWhateverType ==
  (AttachmentOffered /\ Uploaded)
  => /\ part.size > 5 * 1024 * 1024 =>
          (pc = "done" /\ responses = <<MessageResponse(400, SizeMessage)>>)
     /\ part.size <= 5 * 1024 * 1024 => ~RejectedForSize

\* C8 amended: an attachment over 5 MiB whose declared type is in the
\* allow-list is rejected with 400 'File size exceeds 5MB limit'; one whose
\* type is not in the allow-list is rejected with 400 and the invalid-type
\* message, whatever its size; one under 5 MiB is never rejected for size.
C8_SizeRejectedAfterTypeCheck ==
  (AttachmentOffered /\ Uploaded)
  => /\ (part.size > 5 * 1024 * 1024 /\ fileFilter(AllowedOf(route), part) = NoError) =>
          (pc = "done" /\ responses = <<MessageResponse(400, SizeMessage)>>)
     /\ fileFilter(AllowedOf(route), part) # NoError =>
          /\ pc = "done"
          /\ responses =
               <<MessageResponse(400, fileFilter(AllowedOf(route), part).message)>>
          /\ ~RejectedForSize
     /\ part.size < 5 * 1024 * 1024 => ~RejectedForSize

C8_Witness ==
  /\ AttachmentOffered
  /\ part.size > 5 * 1024 * 1024
  /\ fileFilter(AllowedOf(route), part) = NoError
  /\ pc = "done"
  /\ responses = <<MessageResponse(400, SizeMessage)>>

\* the lower-cased form of each declared type the requests carry
LowerCased(m) ==
  IF m.kind # "string" THEN ""
  ELSE IF m.str = "IMAGE/PNG" THEN "image/png"
  ELSE IF m.str = "Text/Plain" THEN "text/plain"
  ELSE IF m.str = "Audio/X-Wav" THEN "audio/x-wav"
  ELSE m.str

\* the allow-list of each category
AllowList(r) ==
  IF r = GenerateFromImageRoute
    THEN {"image/png", "image/jpeg", "image/jpg", "image/webp"}
  ELSE IF r = GenerateFromDocumentRoute
    THEN {"application/pdf", "application/msword",
          "application/vnd.openxmlformats-officedocument.wordprocessingml.document",
          "text/plain"}
  ELSE {"audio/mpeg", "audio/mp3", "audio/wav", "audio/x-wav", "audio/webm", "audio/ogg"}

\* the message of a type rejection, per category
InvalidTypeMessage(r) ==
  IF r = GenerateFromImageRoute
    THEN "Invalid file type. Allowed types: image/png, image/jpeg, image/jpg, image/webp"
  ELSE IF r = GenerateFromDocumentRoute
    THEN "Invalid file type. Allowed types: application/pdf, application/msword, application/vnd.openxmlformats-officedocument.wordprocessingml.document, text/plain"
  ELSE "Invalid file type. Allowed types: audio/mpeg, audio/mp3, audio/wav, audio/x-wav, audio/webm, audio/ogg"

\* C9: the gate accepts a declared type iff its lower-cased form (the empty
\* string for a missing type) is in the category's allow-list; a rejected
\* type is answered with 400 and exactly 'Invalid file type. Allowed types: '
\* followed by the allow-list joined with ', '.
C9_TypeAcceptedIffAllowed ==
  (AttachmentOffered /\ Uploaded)
  => IF LowerCased(part.mimetype) \in AllowList(route)
     THEN /\ \A i \in 1..Len(responses) :
               responses[i].value # InvalidTypeMessage(route)
          /\ reqFile.present \/ RejectedForSize
     ELSE /\ pc = "done"
          /\ ~reqFile.present
          /\ responses = <<[status |-> 400, key |-> "message",
                            value |-> InvalidTypeMessage(route)]>>

C9_Witness ==
  /\ route = GenerateFromDocumentRoute
  /\ part.present
  /\ part.fieldname = "document"
  /\ part.mimetype = JSString("Text/Plain")
  /\ reqFile.present
  /\ pc = "awaiting"

\* C10: a prompt is accepted iff it is a string with at least one character
\* left after trimming white space; on /generate-text every other prompt,
\* a body without one included, is answered 400 'prompt is required'.
C10_PromptValidation ==
  /\ isPromptValid(requestPrompt) <=> PromptAcceptable(requestPrompt)
  /\ (route = GenerateTextRoute /\ handlerRan) =>
       IF PromptAcceptable(requestPrompt)
       THEN /\ calls = <<TextContents(requestPrompt.str)>>
            /\ \A i \in 1..Len(responses) : responses[i].status # 400
       ELSE /\ pc = "done"
            /\ calls = <<>>
            /\ responses = <<MessageResponse(400, "prompt is required")>>

C10_Witness ==
  /\ route = GenerateTextRoute
  /\ pc = "done"
  /\ requestPrompt = JSString(" \t")
  /\ responses = <<MessageResponse(400, "prompt is required")>>

====
